---- MODULE Spec2Model ----
(***************************************************************************)
(* Office space planner: the requirements form (SpaceRequirements), the    *)
(* solutions view (LayoutSolutions) and the layout_solutions table.        *)
(*                                                                         *)
(* Numbers.  The code computes in IEEE doubles; the model computes in      *)
(* exact integer arithmetic.  Counts are integers and floor_area_sqm is    *)
(* taken in whole square metres; a product with 1.4, 0.85, 0.8 or 0.7 is   *)
(* kept as a fraction over 10 or 100 and every comparison is made by      *)
(* cross-multiplication, every floor and round by integer division.       *)
(* A value that JavaScript holds as number | null is a sequence: <<>> is  *)
(* null and <<n>> is the number n.                                        *)
(***************************************************************************)
EXTENDS Integers, Sequences, FiniteSets, TLC

VARIABLES
    activeTab,         \* ProjectDetail: the tab whose component is mounted
    floorPlan,         \* ProjectDetail: selectedFloorPlan, the floorPlan prop
    floorPlans,        \* ProjectDetail: the floorPlans state, the list shown
    plansLoad,         \* ProjectDetail: loadFloorPlans, its query and answer
    requirements,      \* SpaceRequirements: the form's requirements state
    estimatedArea,     \* SpaceRequirements: the estimatedArea state
    effectPending,     \* SpaceRequirements: useEffect([requirements]) is due
    formLoads,         \* SpaceRequirements: the loadExistingRequirements calls awaited
    saving,            \* SpaceRequirements: the saving state
    saveInflight,      \* the insert requests of handleSave not yet answered
    solRequirements,   \* LayoutSolutions: the requirements state (row or null)
    solutions,         \* LayoutSolutions: the solutions state, as displayed
    loading,           \* LayoutSolutions: the loading state
    loads,             \* LayoutSolutions: the loadRequirementsAndSolutions calls awaited
    generating,        \* LayoutSolutions: the generating state
    inflight,          \* the insert requests of generateSolution not yet answered
    lastAlert,         \* the text of the last alert() shown, "" when none
    floor_plans,       \* the floor_plans table, in insertion order
    space_requirements, \* the space_requirements table, in insertion order
    layout_solutions   \* the layout_solutions table, in insertion order

vars == <<activeTab, floorPlan, floorPlans, plansLoad, requirements,
          estimatedArea, effectPending, formLoads, saving, saveInflight,
          solRequirements, solutions, loading, loads, generating, inflight,
          lastAlert, floor_plans, space_requirements, layout_solutions>>

formVars == <<requirements, estimatedArea, effectPending, formLoads, saving>>

viewVars == <<solRequirements, solutions, loading, loads, generating>>

-----------------------------------------------------------------------------
(* Bounds of the model *)

MaxCount == 1        \* largest count in the slice where every field varies
MaxNegCount == 7     \* workstations typed down to -MaxNegCount
MaxWorkstations == 31
MaxRooms == 2        \* small, medium and large rooms in the placement slice
MaxMedium == 2       \* medium rooms in the score slice
MaxNegMedium == 1    \* medium rooms typed down to -MaxNegMedium there
MaxArea == 90        \* floor areas 0..MaxArea in the score slice
MaxNegArea == 2      \* floor areas down to -MaxNegArea in the score slice
MaxAreaSteps == 6    \* floor areas up to 50 * MaxAreaSteps in the placement slice
MaxSolutions == 2    \* rows generateSolution may insert
MaxSaves == 2        \* rows handleSave may insert
MaxPlans == 2        \* rows of floor_plans
MaxRows == 4         \* rows of all three tables together

-----------------------------------------------------------------------------
(* JavaScript values *)

Null == <<>>
Num(n) == <<n>>

\* a test for null alone
Falsy_nullOnly(x) == x = Null

\* !x for x : number | null  -- null and 0 are falsy
Falsy(x) == x = Null \/ x[1] = 0

\* x || d for x : number | null
OrElse(x, d) == IF Falsy(x) THEN d ELSE x[1]

Min(a, b) == IF a <= b THEN a ELSE b

\* Math.floor(n / d) for d > 0
MathFloor(n, d) == n \div d

\* Math.round(n / d) for d > 0: the nearest integer, a half rounds up
MathRound(n, d) == (2 * n + d) \div (2 * d)

-----------------------------------------------------------------------------
(* SpaceRequirements (the requirements form) *)

\* useState<Requirements>({...}): additional_notes is free text that no
\* computation reads and is left out
DefaultRequirements ==
    [workstations |-> 10, meeting_rooms_small |-> 1, meeting_rooms_medium |-> 1,
     meeting_rooms_large |-> 0, phone_booths |-> 2, breakout_areas |-> 1,
     kitchen_pantry |-> TRUE, reception_area |-> TRUE, storage_rooms |-> 1,
     server_room |-> FALSE]

\* the fields that have a number input
CountFields ==
    {"workstations", "meeting_rooms_small", "meeting_rooms_medium",
     "meeting_rooms_large", "phone_booths", "breakout_areas", "storage_rooms"}

\* parseInt(e.target.value) || 0 of a number input: value is the integer
\* typed, or Null when the field's text is empty or not a number (NaN)
parseCount(value) == OrElse(value, 0)

\* the record the form holds after the integers of req have been typed into
\* its number inputs
typedRequirements(req) ==
    [f \in DOMAIN req |->
        IF f \in CountFields THEN parseCount(Num(req[f])) ELSE req[f]]

\* total of calculateEstimatedArea
total(req) ==
    LET workstationArea == req.workstations * 6
        smallMeetingArea == req.meeting_rooms_small * 15
        mediumMeetingArea == req.meeting_rooms_medium * 25
        largeMeetingArea == req.meeting_rooms_large * 40
        phoneBoothArea == req.phone_booths * 2
        breakoutArea == req.breakout_areas * 20
        kitchenArea == IF req.kitchen_pantry THEN 15 ELSE 0
        receptionArea == IF req.reception_area THEN 20 ELSE 0
        storageArea == req.storage_rooms * 10
        serverArea == IF req.server_room THEN 15 ELSE 0
    IN  workstationArea + smallMeetingArea + mediumMeetingArea +
        largeMeetingArea + phoneBoothArea + breakoutArea +
        kitchenArea + receptionArea + storageArea + serverArea

calculateEstimatedArea_storageSubtracted(req) ==
    MathRound((total(req) - 2 * (req.storage_rooms * 10)) * 14, 10)

calculateEstimatedArea_floor(req) == MathFloor(total(req) * 14, 10)

calculateEstimatedArea_ceil(req) == -MathFloor(-(total(req) * 14), 10)

\* the value calculateEstimatedArea passes to setEstimatedArea:
\* withCirculation = total * 1.4 is the fraction 14 * total / 10
calculateEstimatedArea(req) == MathRound(total(req) * 14, 10)

isAreaSufficient_strict(est, floor_area_sqm) ==
    Falsy(floor_area_sqm) \/ est < floor_area_sqm[1]

\* const isAreaSufficient = !floorPlan.floor_area_sqm || estimatedArea <= floorPlan.floor_area_sqm
isAreaSufficient(est, floor_area_sqm) ==
    Falsy(floor_area_sqm) \/ est <= floor_area_sqm[1]

-----------------------------------------------------------------------------
(* LayoutSolutions (the solutions view) *)

ratioAtLeast_noCirculation(availableArea, requiredArea, t) ==
    IF requiredArea > 0 THEN 10 * availableArea >= requiredArea * t
    ELSE IF requiredArea < 0 THEN 10 * availableArea <= requiredArea * t
    ELSE availableArea > 0

\* a quotient by 0 that compares as NaN does: no threshold is met
ratioAtLeast_zeroIsNaN(availableArea, requiredArea, t) ==
    IF requiredArea > 0 THEN 100 * availableArea >= 14 * requiredArea * t
    ELSE IF requiredArea < 0 THEN 100 * availableArea <= 14 * requiredArea * t
    ELSE FALSE

\* ratio >= t / 10, where ratio = availableArea / withCirculation and
\* withCirculation = requiredArea * 1.4.  A division by 0 gives +Infinity for
\* a positive and -Infinity for a negative availableArea.
ratioAtLeast(availableArea, requiredArea, t) ==
    IF requiredArea > 0 THEN 100 * availableArea >= 14 * requiredArea * t
    ELSE IF requiredArea < 0 THEN 100 * availableArea <= 14 * requiredArea * t
    ELSE availableArea > 0

\* requiredArea of calculateFeasibilityScore
requiredArea(req) ==
    req.workstations * 6 +
    req.meeting_rooms_small * 15 +
    req.meeting_rooms_medium * 25 +
    req.meeting_rooms_large * 40 +
    req.phone_booths * 2 +
    req.breakout_areas * 20 +
    (IF req.kitchen_pantry THEN 15 ELSE 0) +
    (IF req.reception_area THEN 20 ELSE 0) +
    req.storage_rooms * 10 +
    (IF req.server_room THEN 15 ELSE 0)

scoreForRatio_exclusive(availableArea, required) ==
    IF ~ratioAtLeast(availableArea, required, 12) THEN
        IF ~ratioAtLeast(availableArea, required, 10) THEN
            IF ~ratioAtLeast(availableArea, required, 9) THEN
                IF ~ratioAtLeast(availableArea, required, 8) THEN 40
                ELSE IF 100 * availableArea = 14 * required * 8 THEN 40 ELSE 55
            ELSE IF 100 * availableArea = 14 * required * 9 THEN 55 ELSE 70
        ELSE IF 100 * availableArea = 14 * required * 10 THEN 70 ELSE 85
    ELSE IF 100 * availableArea = 14 * required * 12 THEN 85 ELSE 95

\* the threshold ladder of calculateFeasibilityScore: first match from the top
scoreForRatio(availableArea, required) ==
    IF ratioAtLeast(availableArea, required, 12) THEN 95
    ELSE IF ratioAtLeast(availableArea, required, 10) THEN 85
    ELSE IF ratioAtLeast(availableArea, required, 9) THEN 70
    ELSE IF ratioAtLeast(availableArea, required, 8) THEN 55
    ELSE 40

calculateFeasibilityScore_unknownZero(req, availableArea) ==
    IF Falsy(availableArea) THEN 0
    ELSE scoreForRatio(availableArea[1], requiredArea(req))

calculateFeasibilityScore_percent(req, availableArea) ==
    IF Falsy(availableArea) THEN 50
    ELSE IF requiredArea(req) > 0
         THEN (1000 * availableArea[1]) \div (14 * requiredArea(req))
         ELSE scoreForRatio(availableArea[1], requiredArea(req))

calculateFeasibilityScore(req, availableArea) ==
    IF Falsy(availableArea) THEN 50
    ELSE scoreForRatio(availableArea[1], requiredArea(req))

generateSuggestions_fiveRooms(req, availableArea, isFeasible) ==
    IF Falsy(availableArea) THEN <<"set_floor_area">>
    ELSE (IF ~isFeasible
          THEN <<"infeasible_lead", "reduce_workstations",
                 "flexible_shared_space", "reassess_facilities">>
          ELSE <<"feasible_lead", "open_plan", "glass_partitions",
                 "reserve_for_expansion">>)
         \o (IF req.workstations > 30 THEN <<"collaboration_zone">> ELSE <<>>)
         \o (IF req.meeting_rooms_small + req.meeting_rooms_medium +
                req.meeting_rooms_large >= 5
             THEN <<"booking_system">> ELSE <<>>)

generateSuggestions_unguarded(req, availableArea, isFeasible) ==
    (IF ~isFeasible
     THEN <<"infeasible_lead", "reduce_workstations",
            "flexible_shared_space", "reassess_facilities">>
     ELSE <<"feasible_lead", "open_plan", "glass_partitions",
            "reserve_for_expansion">>)
    \o (IF req.workstations > 30 THEN <<"collaboration_zone">> ELSE <<>>)
    \o (IF req.meeting_rooms_small + req.meeting_rooms_medium +
           req.meeting_rooms_large > 5
        THEN <<"booking_system">> ELSE <<>>)

\* the lines generateSuggestions joins with "\n", each named by its content
generateSuggestions(req, availableArea, isFeasible) ==
    IF Falsy(availableArea) THEN <<"set_floor_area">>
    ELSE (IF ~isFeasible
          THEN <<"infeasible_lead", "reduce_workstations",
                 "flexible_shared_space", "reassess_facilities">>
          ELSE <<"feasible_lead", "open_plan", "glass_partitions",
                 "reserve_for_expansion">>)
         \o (IF req.workstations > 30 THEN <<"collaboration_zone">> ELSE <<>>)
         \o (IF req.meeting_rooms_small + req.meeting_rooms_medium +
                req.meeting_rooms_large > 5
             THEN <<"booking_system">> ELSE <<>>)

\* Math.floor(requirements.workstations * 0.85)
estimatedWorkstations(req) == MathFloor(req.workstations * 85, 100)

\* Math.min(requirements.meeting_rooms_small, Math.floor((floor_area_sqm || 0) / 100))
estimatedSmallRooms(req, floor_area_sqm) ==
    Min(req.meeting_rooms_small, MathFloor(OrElse(floor_area_sqm, 0), 100))

estimatedMediumRooms_per100(req, floor_area_sqm) ==
    Min(req.meeting_rooms_medium, MathFloor(OrElse(floor_area_sqm, 0), 100))

\* Math.min(requirements.meeting_rooms_medium, Math.floor((floor_area_sqm || 0) / 150))
estimatedMediumRooms(req, floor_area_sqm) ==
    Min(req.meeting_rooms_medium, MathFloor(OrElse(floor_area_sqm, 0), 150))

\* Math.min(95, (estimatedWorkstations * 6) / (floor_area_sqm || 1) * 100),
\* the fraction num / den with den > 0
utilizationRate(req, floor_area_sqm) ==
    LET d == OrElse(floor_area_sqm, 1)
        n == estimatedWorkstations(req) * 6 * 100
        num == IF d > 0 THEN n ELSE -n
        den == IF d > 0 THEN d ELSE -d
    IN  IF num >= 95 * den THEN [num |-> 95, den |-> 1]
        ELSE [num |-> num, den |-> den]

largeRoomsPlaced_uncapped(req) == req.meeting_rooms_large

\* large: Math.min(requirements.meeting_rooms_large, 1)
largeRoomsPlaced(req) == Min(req.meeting_rooms_large, 1)

amenitiesPlaced_storageDropped(req) ==
    [phone_booths |-> req.phone_booths,
     breakout_areas |-> req.breakout_areas,
     kitchen |-> req.kitchen_pantry,
     reception |-> req.reception_area,
     storage |-> 0,
     server_room |-> req.server_room]

\* amenities_placed of the inserted record
amenitiesPlaced(req) ==
    [phone_booths |-> req.phone_booths,
     breakout_areas |-> req.breakout_areas,
     kitchen |-> req.kitchen_pantry,
     reception |-> req.reception_area,
     storage |-> req.storage_rooms,
     server_room |-> req.server_room]

workstationsConstraintMet_85(req) ==
    100 * estimatedWorkstations(req) >= 85 * req.workstations

\* workstations: estimatedWorkstations >= requirements.workstations * 0.8
workstationsConstraintMet(req) ==
    10 * estimatedWorkstations(req) >= 8 * req.workstations

meetingRoomsConstraintMet_withLarge(req, floor_area_sqm) ==
    10 * (estimatedSmallRooms(req, floor_area_sqm) +
          estimatedMediumRooms(req, floor_area_sqm) +
          Min(req.meeting_rooms_large, 1)) >=
    7 * (req.meeting_rooms_small + req.meeting_rooms_medium +
         req.meeting_rooms_large)

\* meeting_rooms: estimatedSmallRooms + estimatedMediumRooms >=
\*   (requirements.meeting_rooms_small + requirements.meeting_rooms_medium) * 0.7
meetingRoomsConstraintMet(req, floor_area_sqm) ==
    10 * (estimatedSmallRooms(req, floor_area_sqm) +
          estimatedMediumRooms(req, floor_area_sqm)) >=
    7 * (req.meeting_rooms_small + req.meeting_rooms_medium)

isFeasibleScore_50(feasibilityScore) == feasibilityScore >= 50

\* const isFeasible = feasibilityScore >= 60
isFeasibleScore(feasibilityScore) == feasibilityScore >= 60

\* the record generateSolution passes to insert(); generation_params holds
\* a constant and a wall-clock timestamp and is left out
solutionPayload(req, fp) ==
    LET feasibilityScore == calculateFeasibilityScore(req, fp.floor_area_sqm)
        isFeasible == isFeasibleScore(feasibilityScore)
    IN  [floor_plan_id |-> fp.id,
         space_requirement_id |-> req.id,
         feasibility_score |-> feasibilityScore,
         is_feasible |-> isFeasible,
         workstations_placed |-> estimatedWorkstations(req),
         meeting_rooms_placed |->
             [small |-> estimatedSmallRooms(req, fp.floor_area_sqm),
              medium |-> estimatedMediumRooms(req, fp.floor_area_sqm),
              large |-> largeRoomsPlaced(req)],
         amenities_placed |-> amenitiesPlaced(req),
         utilization_rate |-> utilizationRate(req, fp.floor_area_sqm),
         constraints_met |->
             [workstations |-> workstationsConstraintMet(req),
              meeting_rooms |->
                  meetingRoomsConstraintMet(req, fp.floor_area_sqm),
              amenities |-> TRUE],
         suggestions |->
             generateSuggestions(req, fp.floor_area_sqm, isFeasible)]

-----------------------------------------------------------------------------
(* The layout_solutions table *)

\* feasibility_score numeric DEFAULT 0 CHECK (feasibility_score >= 0 AND feasibility_score <= 100)
feasibilityScoreCheck(row) ==
    row.feasibility_score >= 0 /\ row.feasibility_score <= 100

\* the stored row: id uuid DEFAULT uuid_generate_v4() and
\* created_at timestamptz DEFAULT now(), both taken from the row count
storedRow(payload, table) ==
    [id |-> Len(table) + 1, created_at |-> Len(table) + 1, data |-> payload]

-----------------------------------------------------------------------------
(* Inputs: the requirement records and floor areas the runs start from *)

Requirement(w, s, m, l, p, b, k, r, st, sv) ==
    [workstations |-> w, meeting_rooms_small |-> s, meeting_rooms_medium |-> m,
     meeting_rooms_large |-> l, phone_booths |-> p, breakout_areas |-> b,
     kitchen_pantry |-> k, reception_area |-> r, storage_rooms |-> st,
     server_room |-> sv]

\* every field varies, no floor area
SliceAllFields ==
    {<<Requirement(w, s, m, l, p, b, k, r, st, sv), Null>> :
        w \in 0..MaxCount, s \in 0..MaxCount, m \in 0..MaxCount,
        l \in 0..MaxCount, p \in 0..MaxCount, b \in 0..MaxCount,
        k \in BOOLEAN, r \in BOOLEAN, st \in 0..MaxCount, sv \in BOOLEAN}

\* required areas 6w + 25m + 10st against every whole floor area
SliceScore ==
    {<<Requirement(w, 0, m, 0, 0, 0, FALSE, FALSE, st, FALSE), a>> :
        w \in 0..1, m \in -MaxNegMedium..MaxMedium, st \in 0..1,
        a \in {Null} \cup {Num(n) : n \in -MaxNegArea..MaxArea}}

\* workstations and rooms against floor areas at and just below the
\* multiples of 50
SlicePlacement ==
    {<<Requirement(w, s, m, l, 0, 0, FALSE, FALSE, 0, FALSE), a>> :
        w \in -MaxNegCount..MaxWorkstations,
        s \in 0..MaxRooms, m \in 0..MaxRooms, l \in 0..MaxRooms,
        a \in {Null} \cup {Num(50 * k - j) : k \in 0..MaxAreaSteps, j \in 0..1}}

\* the form's default record against no area, 150 and 300
SliceDefault ==
    {<<DefaultRequirements, a>> : a \in {Null, Num(150), Num(300)}}

Inputs == SliceAllFields \cup SliceScore \cup SlicePlacement \cup SliceDefault

\* a session: the floor areas of the selected plan and the workstation counts
\* typed into the form
SessionAreas == {Num(300)}

SessionWorkstations == {40}

-----------------------------------------------------------------------------
(* The tables and their queries *)

insertRow_overwriteLast(table, row) ==
    IF table = <<>> THEN Append(table, row)
    ELSE [table EXCEPT ![Len(table)] = row]

\* supabase .insert(row): the table gains one row, the others stay
insertRow(table, row) == Append(table, row)

\* the space_requirements row handleSave inserts: id and created_at are the
\* column defaults, both taken from the row count
requirementRow(req, fp, table) ==
    [id |-> Len(table) + 1, created_at |-> Len(table) + 1,
     floor_plan_id |-> fp.id] @@ req

\* the fields loadExistingRequirements copies from a row into the form
formFields(row) == [f \in DOMAIN DefaultRequirements |-> row[f]]

\* the rows oldest first
RECURSIVE orderByCreatedAtDesc_ascending(_)
orderByCreatedAtDesc_ascending(rows) ==
    IF rows = {} THEN <<>>
    ELSE LET oldest == CHOOSE r \in rows :
                           \A q \in rows : r.created_at <= q.created_at
         IN  <<oldest>> \o orderByCreatedAtDesc_ascending(rows \ {oldest})

\* .order('created_at', { ascending: false }) over a set of rows
RECURSIVE orderByCreatedAtDesc(_)
orderByCreatedAtDesc(rows) ==
    IF rows = {} THEN <<>>
    ELSE LET newest == CHOOSE r \in rows :
                           \A q \in rows : q.created_at <= r.created_at
         IN  <<newest>> \o orderByCreatedAtDesc(rows \ {newest})

\* from('space_requirements').select('*').eq('floor_plan_id', id)
\*   .order('created_at', { ascending: false }).limit(1).maybeSingle()
latestRequirement(table, floorPlanId) ==
    LET rows == orderByCreatedAtDesc(
                    {table[i] : i \in {j \in DOMAIN table :
                                          table[j].floor_plan_id = floorPlanId}})
    IN  IF rows = <<>> THEN Null ELSE <<rows[1]>>

\* every stored solution, newest first
solutionsOf_unfiltered(table, requirementId) ==
    orderByCreatedAtDesc({table[i] : i \in DOMAIN table})

\* from('layout_solutions').select('*').eq('space_requirement_id', id)
\*   .order('created_at', { ascending: false })
solutionsOf(table, requirementId) ==
    orderByCreatedAtDesc(
        {table[i] : i \in {j \in DOMAIN table :
                              table[j].data.space_requirement_id = requirementId}})

-----------------------------------------------------------------------------
(* The state machine *)

\* the requests of a component that has been unmounted: they are answered,
\* and the setters of the answer's continuation no longer change any state
Orphaned(requests) == [i \in DOMAIN requests |-> [requests[i] EXCEPT !.live = FALSE]]

\* a sequence without its i-th element
Without(seq, i) == SubSeq(seq, 1, i - 1) \o SubSeq(seq, i + 1, Len(seq))

\* the rows stored in, and the inserts sent to, the three tables
RowsRequested ==
    Len(floor_plans) + Len(space_requirements) + Len(saveInflight) +
    Len(layout_solutions) + Len(inflight)

\* selectedFloorPlan = null of ProjectDetail, written as a plan no row has
NoPlan == [id |-> 0, floor_area_sqm |-> Null]

\* the floor plan the project holds when the page is opened
ExistingPlan(a) == [id |-> 1, floor_area_sqm |-> a]

\* floor_area_sqm: floorArea ? parseFloat(floorArea) : null of handleUpload;
\* value is the number typed into the area field, Null for the empty field
uploadedArea(value) == IF value = Null THEN Null ELSE Num(value[1])

\* the floor plan handleUpload inserts, the area field left empty:
\* floor_area_sqm is floorArea ? parseFloat(floorArea) : null
UploadedPlan(table) ==
    [id |-> Len(table) + 1, floor_area_sqm |-> uploadedArea(Null)]

\* from('floor_plans').select('*').order('created_at', { ascending: false }):
\* the rows newest first, the table being in insertion order
plansNewestFirst(table) == [i \in DOMAIN table |-> table[Len(table) + 1 - i]]

\* the call of loadRequirementsAndSolutions that the effect on [floorPlan.id]
\* starts for floor plan fp
NewLoad(fp) == [fp |-> fp.id, pc |-> "requirements", reqData |-> Null]

\* Either the requirements tab is open, the form holds the record and its
\* effect is due; or the record is saved, the solutions tab is open and
\* loadRequirementsAndSolutions has delivered it.
Init ==
    \E in \in Inputs :
        /\ floorPlan = [id |-> 1, floor_area_sqm |-> uploadedArea(in[2])]
        /\ floor_plans = <<floorPlan>>
        /\ floorPlans = <<floorPlan>>
        /\ plansLoad = [pc |-> "done", data |-> <<>>]
        /\ activeTab \in {"requirements", "solutions"}
        /\ requirements = IF activeTab = "requirements"
                          THEN typedRequirements(in[1])
                          ELSE DefaultRequirements
        /\ estimatedArea = 0
        /\ effectPending = (activeTab = "requirements")
        /\ formLoads = <<>>
        /\ saving = FALSE
        /\ saveInflight = <<>>
        /\ space_requirements =
               IF activeTab = "solutions"
               THEN <<requirementRow(typedRequirements(in[1]), floorPlan,
                                     <<>>)>>
               ELSE <<>>
        /\ solRequirements = latestRequirement(space_requirements, floorPlan.id)
        /\ solutions = <<>>
        /\ loading = FALSE
        /\ loads = <<>>
        /\ generating = FALSE
        /\ inflight = <<>>
        /\ lastAlert = ""
        /\ layout_solutions = <<>>

\* ProjectDetail is mounted for a project that holds one floor plan: the
\* upload tab is open, no floor plan is selected yet, loadFloorPlans is
\* awaited, nothing is stored for the plan
InitSession ==
    /\ \E a \in SessionAreas : floor_plans = <<ExistingPlan(a)>>
    /\ floorPlan = NoPlan
    /\ floorPlans = <<>>
    /\ plansLoad = [pc |-> "sent", data |-> <<>>]
    /\ activeTab = "upload"
    /\ requirements = DefaultRequirements
    /\ estimatedArea = 0
    /\ effectPending = FALSE
    /\ formLoads = <<>>
    /\ saving = FALSE
    /\ saveInflight = <<>>
    /\ space_requirements = <<>>
    /\ solRequirements = Null
    /\ solutions = <<>>
    /\ loading = FALSE
    /\ loads = <<>>
    /\ generating = FALSE
    /\ inflight = <<>>
    /\ lastAlert = ""
    /\ layout_solutions = <<>>

\* the component state after setActiveTab(t) has unmounted the component of
\* the old tab and mounted the one of tab t for floor plan fp: useState
\* initial values, the mount effects due
Mounted(t, fp) ==
    /\ activeTab' = t
    /\ requirements' = DefaultRequirements
    /\ estimatedArea' = 0
    /\ effectPending' = (t = "requirements")
    /\ formLoads' = IF t = "requirements" THEN <<fp.id>> ELSE <<>>
    /\ saving' = FALSE
    /\ solRequirements' = Null
    /\ solutions' = <<>>
    /\ loading' = (t = "solutions")
    /\ loads' = IF t = "solutions" THEN <<NewLoad(fp)>> ELSE <<>>
    /\ generating' = FALSE

\* the floorPlan prop of the mounted component changes to fp: the effects on
\* [floorPlan.id] run again, the state of the component stays
PropChanged(fp) ==
    /\ formLoads' = IF activeTab = "requirements" /\ fp.id # floorPlan.id
                    THEN Append(formLoads, fp.id) ELSE formLoads
    /\ loads' = IF activeTab = "solutions" /\ fp.id # floorPlan.id
                THEN Append(loads, NewLoad(fp)) ELSE loads

\* loadFloorPlans: the database evaluates the query
PlansQueried ==
    /\ plansLoad.pc = "sent"
    /\ plansLoad' = [pc |-> "answered", data |-> plansNewestFirst(floor_plans)]
    /\ UNCHANGED <<activeTab, formVars, saveInflight, floorPlan, floorPlans,
                   viewVars, inflight, lastAlert, floor_plans,
                   space_requirements, layout_solutions>>

\* loadFloorPlans resumes with the rows: setFloorPlans(data), and
\* setSelectedFloorPlan(data[0]) because the selectedFloorPlan it tests is
\* the null of the render that started it
PlansDelivered ==
    /\ plansLoad.pc = "answered"
    /\ plansLoad' = [pc |-> "done", data |-> <<>>]
    /\ floorPlans' = plansLoad.data
    /\ floorPlan' = IF Len(plansLoad.data) > 0 THEN plansLoad.data[1]
                    ELSE floorPlan
    /\ PropChanged(floorPlan')
    /\ UNCHANGED <<activeTab, requirements, estimatedArea, effectPending,
                   saving, saveInflight, solRequirements, solutions, loading,
                   generating, inflight, lastAlert, floor_plans,
                   space_requirements, layout_solutions>>

\* loadFloorPlans answered with an error: the catch block logs it
PlansFailed ==
    /\ plansLoad.pc # "done"
    /\ plansLoad' = [pc |-> "done", data |-> <<>>]
    /\ UNCHANGED <<activeTab, formVars, saveInflight, floorPlan, floorPlans,
                   viewVars, inflight, lastAlert, floor_plans,
                   space_requirements, layout_solutions>>

\* handleUpload answered and handleFloorPlanUploaded: the new plan is stored,
\* heads the list, is selected, and the requirements tab is opened
UploadFloorPlan ==
    /\ activeTab = "upload"
    /\ Len(floor_plans) < MaxPlans
    /\ RowsRequested < MaxRows
    /\ LET plan == UploadedPlan(floor_plans)
       IN  /\ floor_plans' = insertRow(floor_plans, plan)
           /\ floorPlans' = <<plan>> \o floorPlans
           /\ floorPlan' = plan
           /\ Mounted("requirements", plan)
    /\ inflight' = Orphaned(inflight)
    /\ saveInflight' = Orphaned(saveInflight)
    /\ UNCHANGED <<plansLoad, lastAlert, space_requirements, layout_solutions>>

\* a floor plan of the list shown on the upload tab is clicked:
\* onSelectFloorPlan(floorPlan)
SelectFloorPlan ==
    /\ activeTab = "upload"
    /\ \E i \in DOMAIN floorPlans :
           /\ floorPlans[i] # floorPlan
           /\ floorPlan' = floorPlans[i]
    /\ UNCHANGED <<activeTab, formVars, saveInflight, floorPlans, plansLoad,
                   viewVars, inflight, lastAlert, floor_plans,
                   space_requirements, layout_solutions>>

\* a tab button of ProjectDetail: onClick={() => setActiveTab(t)}; the
\* requirements and solutions buttons are disabled while no plan is selected
SetActiveTab ==
    \E t \in {"upload", "requirements", "solutions"} :
        /\ t # activeTab
        /\ t = "upload" \/ floorPlan # NoPlan
        /\ Mounted(t, floorPlan)
        /\ inflight' = Orphaned(inflight)
        /\ saveInflight' = Orphaned(saveInflight)
        /\ UNCHANGED <<floorPlan, floorPlans, plansLoad, lastAlert,
                       floor_plans, space_requirements, layout_solutions>>

\* loadExistingRequirements answered: the form takes the fields of the
\* newest row of the floor plan the call was started for, if there is one
LoadExistingRequirements ==
    \E i \in DOMAIN formLoads :
        /\ activeTab = "requirements"
        /\ formLoads' = Without(formLoads, i)
        /\ LET data == latestRequirement(space_requirements, formLoads[i])
           IN  IF data # Null
               THEN /\ requirements' = formFields(data[1])
                    /\ effectPending' = TRUE
               ELSE UNCHANGED <<requirements, effectPending>>
        /\ UNCHANGED <<activeTab, estimatedArea, saving, saveInflight,
                       floorPlan, floorPlans, plansLoad, viewVars, inflight,
                       lastAlert, floor_plans, space_requirements,
                       layout_solutions>>

\* loadExistingRequirements answered with an error: the catch block logs it
LoadExistingFailed ==
    \E i \in DOMAIN formLoads :
        /\ activeTab = "requirements"
        /\ formLoads' = Without(formLoads, i)
        /\ UNCHANGED <<activeTab, requirements, estimatedArea, effectPending,
                       saving, saveInflight, floorPlan, floorPlans, plansLoad,
                       viewVars, inflight, lastAlert, floor_plans,
                       space_requirements, layout_solutions>>

\* an onChange handler whose new record does not make the effect on
\* [requirements] run
SetRequirements_noRecompute ==
    /\ activeTab = "requirements"
    /\ \E w \in SessionWorkstations :
           requirements' =
               [requirements EXCEPT !.workstations = parseCount(Num(w))]
    /\ requirements' # requirements
    /\ UNCHANGED <<activeTab, estimatedArea, effectPending, formLoads, saving,
                   saveInflight, floorPlan, floorPlans, plansLoad, viewVars,
                   inflight, lastAlert, floor_plans, space_requirements,
                   layout_solutions>>

\* onChange of the workstations input:
\* setRequirements({ ...requirements, workstations: parseInt(value) || 0 });
\* the other inputs have the same handler for their own field
SetRequirements ==
    /\ activeTab = "requirements"
    /\ \E w \in SessionWorkstations :
           requirements' =
               [requirements EXCEPT !.workstations = parseCount(Num(w))]
    /\ requirements' # requirements
    /\ effectPending' = TRUE
    /\ UNCHANGED <<activeTab, estimatedArea, formLoads, saving,
                   saveInflight, floorPlan, floorPlans, plansLoad, viewVars,
                   inflight, lastAlert, floor_plans, space_requirements,
                   layout_solutions>>

\* useEffect(() => { calculateEstimatedArea(); }, [requirements])
CalculateEstimatedArea ==
    /\ activeTab = "requirements"
    /\ effectPending
    /\ estimatedArea' = calculateEstimatedArea(requirements)
    /\ effectPending' = FALSE
    /\ UNCHANGED <<activeTab, requirements, formLoads, saving,
                   saveInflight, floorPlan, floorPlans, plansLoad, viewVars,
                   inflight, lastAlert, floor_plans, space_requirements,
                   layout_solutions>>

\* handleSave up to its await: the button is disabled while saving
HandleSave ==
    /\ activeTab = "requirements"
    /\ ~saving
    /\ Len(space_requirements) + Len(saveInflight) < MaxSaves
    /\ RowsRequested < MaxRows
    /\ saving' = TRUE
    /\ saveInflight' = Append(saveInflight,
                              [req |-> requirements, fp |-> floorPlan,
                               live |-> TRUE])
    /\ UNCHANGED <<activeTab, requirements, estimatedArea, effectPending,
                   formLoads, floorPlan, floorPlans, plansLoad, viewVars,
                   inflight, lastAlert, floor_plans, space_requirements,
                   layout_solutions>>

\* the insert of handleSave succeeds: the row is stored, the alert is shown
\* and onComplete() opens the solutions tab
SaveResolved ==
    \E i \in DOMAIN saveInflight :
        /\ space_requirements' =
               insertRow(space_requirements,
                         requirementRow(saveInflight[i].req, saveInflight[i].fp,
                                        space_requirements))
        /\ lastAlert' = "requirements_saved"
        /\ IF activeTab = "solutions"
           THEN /\ saveInflight' = Without(saveInflight, i)
                /\ UNCHANGED <<activeTab, formVars, viewVars, inflight>>
           ELSE /\ Mounted("solutions", floorPlan)
                /\ saveInflight' = Orphaned(Without(saveInflight, i))
                /\ inflight' = Orphaned(inflight)
        /\ UNCHANGED <<floorPlan, floorPlans, plansLoad, floor_plans,
                       layout_solutions>>

\* the insert of handleSave fails: handleSave resumes in its catch block
SaveRejected ==
    \E i \in DOMAIN saveInflight :
        /\ lastAlert' = "save_failed"
        /\ saving' = IF saveInflight[i].live THEN FALSE ELSE saving
        /\ saveInflight' = Without(saveInflight, i)
        /\ UNCHANGED <<activeTab, requirements, estimatedArea, effectPending,
                       formLoads, floorPlan, floorPlans, plansLoad, viewVars,
                       inflight, floor_plans, space_requirements,
                       layout_solutions>>

\* loadRequirementsAndSolutions, its first query answered
LoadRequirements ==
    \E i \in DOMAIN loads :
        /\ activeTab = "solutions"
        /\ loads[i].pc = "requirements"
        /\ LET reqData == latestRequirement(space_requirements, loads[i].fp)
           IN  /\ solRequirements' = reqData
               /\ IF reqData # Null
                  THEN /\ loads' = [loads EXCEPT ![i].pc = "solutions",
                                                 ![i].reqData = reqData]
                       /\ UNCHANGED loading
                  ELSE /\ loads' = Without(loads, i)
                       /\ loading' = FALSE
        /\ UNCHANGED <<activeTab, formVars, saveInflight, floorPlan,
                       floorPlans, plansLoad, solutions, generating, inflight,
                       lastAlert, floor_plans, space_requirements,
                       layout_solutions>>

\* loadRequirementsAndSolutions, its second query answered: reqData is the
\* row its first query returned
LoadSolutions ==
    \E i \in DOMAIN loads :
        /\ activeTab = "solutions"
        /\ loads[i].pc = "solutions"
        /\ solutions' = solutionsOf(layout_solutions, loads[i].reqData[1].id)
        /\ loads' = Without(loads, i)
        /\ loading' = FALSE
        /\ UNCHANGED <<activeTab, formVars, saveInflight, floorPlan,
                       floorPlans, plansLoad, solRequirements, generating,
                       inflight, lastAlert, floor_plans, space_requirements,
                       layout_solutions>>

\* loadRequirementsAndSolutions, a query answered with an error: the catch
\* block logs it and finally clears loading
LoadFailed ==
    \E i \in DOMAIN loads :
        /\ activeTab = "solutions"
        /\ loads' = Without(loads, i)
        /\ loading' = FALSE
        /\ UNCHANGED <<activeTab, formVars, saveInflight, floorPlan,
                       floorPlans, plansLoad, solRequirements, solutions,
                       generating, inflight, lastAlert, floor_plans,
                       space_requirements, layout_solutions>>

\* a generate button that stays enabled while a generation is awaited
GenerateSolution_buttonEnabled ==
    /\ activeTab = "solutions"
    /\ ~loading
    /\ solRequirements # Null
    /\ Len(layout_solutions) + Len(inflight) < MaxSolutions
    /\ RowsRequested < MaxRows
    /\ generating' = TRUE
    /\ inflight' = Append(inflight,
                          [payload |-> solutionPayload(solRequirements[1],
                                                       floorPlan),
                           solutions |-> solutions,
                           live |-> TRUE])
    /\ UNCHANGED <<activeTab, formVars, saveInflight, floorPlan, floorPlans,
                   plansLoad, solRequirements, solutions, loading, loads,
                   lastAlert, floor_plans, space_requirements,
                   layout_solutions>>

\* generateSolution up to its await: the button is rendered once loading is
\* cleared and requirements is not null, and is disabled while generating
GenerateSolution ==
    /\ activeTab = "solutions"
    /\ ~loading
    /\ ~generating
    /\ solRequirements # Null
    /\ Len(layout_solutions) + Len(inflight) < MaxSolutions
    /\ RowsRequested < MaxRows
    /\ generating' = TRUE
    /\ inflight' = Append(inflight,
                          [payload |-> solutionPayload(solRequirements[1],
                                                       floorPlan),
                           solutions |-> solutions,
                           live |-> TRUE])
    /\ UNCHANGED <<activeTab, formVars, saveInflight, floorPlan, floorPlans,
                   plansLoad, solRequirements, solutions, loading, loads,
                   lastAlert, floor_plans, space_requirements,
                   layout_solutions>>

\* the insert succeeds: the row is stored and generateSolution resumes with it
InsertResolved ==
    \E i \in DOMAIN inflight :
        /\ feasibilityScoreCheck(inflight[i].payload)
        /\ LET data == storedRow(inflight[i].payload, layout_solutions)
           IN  /\ layout_solutions' = insertRow(layout_solutions, data)
               /\ IF inflight[i].live
                  THEN /\ solutions' = <<data>> \o inflight[i].solutions
                       /\ generating' = FALSE
                  ELSE UNCHANGED <<solutions, generating>>
        /\ inflight' = Without(inflight, i)
        /\ UNCHANGED <<activeTab, formVars, saveInflight, floorPlan,
                       floorPlans, plansLoad, solRequirements, loading, loads,
                       lastAlert, floor_plans, space_requirements>>

\* a catch block without the finally: the failure is reported, generating
\* stays set
InsertRejected_noFinally ==
    \E i \in DOMAIN inflight :
        /\ lastAlert' = "generate_failed"
        /\ inflight' = Without(inflight, i)
        /\ UNCHANGED <<activeTab, formVars, saveInflight, floorPlan,
                       floorPlans, plansLoad, viewVars, floor_plans,
                       space_requirements, layout_solutions>>

\* the insert fails: generateSolution resumes in its catch block
InsertRejected ==
    \E i \in DOMAIN inflight :
        /\ lastAlert' = "generate_failed"
        /\ generating' = IF inflight[i].live THEN FALSE ELSE generating
        /\ inflight' = Without(inflight, i)
        /\ UNCHANGED <<activeTab, formVars, saveInflight, floorPlan,
                       floorPlans, plansLoad, solRequirements, solutions,
                       loading, loads, floor_plans, space_requirements,
                       layout_solutions>>

\* the estimator on one saved or typed record
Next ==
    \/ CalculateEstimatedArea
    \/ GenerateSolution
    \/ InsertResolved
    \/ InsertRejected

Spec == Init /\ [][Next]_vars

\* a session on a project: floor plans, tabs, the form, saving, loading,
\* generating
NextSession ==
    \/ PlansQueried
    \/ PlansDelivered
    \/ PlansFailed
    \/ UploadFloorPlan
    \/ SelectFloorPlan
    \/ SetActiveTab
    \/ LoadExistingRequirements
    \/ LoadExistingFailed
    \/ SetRequirements
    \/ CalculateEstimatedArea
    \/ HandleSave
    \/ SaveResolved
    \/ SaveRejected
    \/ LoadRequirements
    \/ LoadSolutions
    \/ LoadFailed
    \/ GenerateSolution
    \/ InsertResolved
    \/ InsertRejected

SpecSession == InitSession /\ [][NextSession]_vars

\* React runs the effects of a committed render before it handles a later
\* event: an effect that is due is not postponed for ever
SpecSessionFair == SpecSession /\ WF_vars(CalculateEstimatedArea)

-----------------------------------------------------------------------------
(* What the properties below speak about *)

\* the requirement record of the run: the form's, or the loaded row
InputReq ==
    IF activeTab = "requirements" THEN requirements ELSE solRequirements[1]

\* every record generateSolution has built: awaited, stored or displayed
Generated ==
    {inflight[i].payload : i \in DOMAIN inflight}
    \cup {layout_solutions[i].data : i \in DOMAIN layout_solutions}
    \cup {solutions[i].data : i \in DOMAIN solutions}

\* the form shows the estimate of its current requirements
EstimateShown == activeTab = "requirements" /\ ~effectPending

\* the weighted sum as the specification writes it
WeightedTotal(req) ==
    6 * req.workstations + 15 * req.meeting_rooms_small +
    25 * req.meeting_rooms_medium + 40 * req.meeting_rooms_large +
    2 * req.phone_booths + 20 * req.breakout_areas +
    10 * req.storage_rooms +
    (IF req.kitchen_pantry THEN 15 ELSE 0) +
    (IF req.reception_area THEN 20 ELSE 0) +
    (IF req.server_room THEN 15 ELSE 0)

\* a record of the data model: every count is a non-negative integer
NonNegativeCounts(req) ==
    /\ req.workstations >= 0 /\ req.meeting_rooms_small >= 0
    /\ req.meeting_rooms_medium >= 0 /\ req.meeting_rooms_large >= 0
    /\ req.phone_booths >= 0 /\ req.breakout_areas >= 0
    /\ req.storage_rooms >= 0

ZeroRequirements == Requirement(0, 0, 0, 0, 0, 0, FALSE, FALSE, 0, FALSE)

\* e is the integer nearest to 14 * t / 10, a half taken upwards
IsRoundOfCirculation(e, t) == 10 * e - 5 <= 14 * t /\ 14 * t < 10 * e + 5

\* f = floor(a / d) for d > 0
IsFloorOf(f, a, d) == d * f <= a /\ a < d * f + d

\* m = min(a, b)
IsMinOf(m, a, b) == m <= a /\ m <= b /\ (m = a \/ m = b)

-----------------------------------------------------------------------------
(* C1 *)

\* C1: once calculateEstimatedArea has run, estimatedArea is round(1.4 * total)
\* with total = 6 workstations + 15 small + 25 medium + 40 large rooms +
\* 2 phone booths + 20 breakout areas + 10 storage rooms + 15 for a kitchen +
\* 20 for a reception + 15 for a server room; it is 0 for the record whose
\* counts are all 0 and whose flags are all false.
C1_EstimateIsRoundedTotal ==
    EstimateShown =>
        /\ IsRoundOfCirculation(estimatedArea, WeightedTotal(requirements))
        /\ (requirements = ZeroRequirements => estimatedArea = 0)

\* the default record's total 169 gives 236.6, shown as 237
C1_Witness ==
    /\ EstimateShown
    /\ requirements = DefaultRequirements
    /\ estimatedArea = 237

-----------------------------------------------------------------------------
(* C2 *)

\* a / (1.4 * r) >= t / 10, the quotient by 0 being +Infinity for a > 0 and
\* -Infinity for a < 0
QuotientAtLeast(a, r, t) ==
    CASE r > 0 -> 100 * a >= 14 * t * r
      [] r < 0 -> 100 * a <= 14 * t * r
      [] OTHER -> a > 0

\* the step function of the specification, boundaries inclusive
StepScore(a, r) ==
    IF QuotientAtLeast(a, r, 12) THEN 95
    ELSE IF QuotientAtLeast(a, r, 10) THEN 85
    ELSE IF QuotientAtLeast(a, r, 9) THEN 70
    ELSE IF QuotientAtLeast(a, r, 8) THEN 55
    ELSE 40

\* C2 as stated: for every floor area that is not null the score is the step
\* function of ratio = area / (required area * 1.4): 95 from 1.2, 85 from 1.0,
\* 70 from 0.9, 55 from 0.8, else 40, each boundary inclusive.  Stated for
\* the records of the data model (no negative count) that require some area.
C2_KnownAreaStepFunction ==
    LET area == floorPlan.floor_area_sqm
        r == WeightedTotal(InputReq)
    IN  (area # Null /\ NonNegativeCounts(InputReq) /\ r > 0) =>
            \A p \in Generated : p.feasibility_score = StepScore(area[1], r)

\* C2 amended: for every floor area that is neither null nor 0 the score is
\* that step function, each boundary inclusive; a ratio exactly 1.2, 1.0, 0.9
\* or 0.8 gets 95, 85, 70 or 55.
C2_NonZeroAreaStepFunction ==
    LET area == floorPlan.floor_area_sqm
        r == WeightedTotal(InputReq)
    IN  ~Falsy(area) =>
            /\ calculateFeasibilityScore(InputReq, area) = StepScore(area[1], r)
            /\ \A p \in Generated :
                   /\ p.feasibility_score = StepScore(area[1], r)
                   /\ (r > 0 /\ 100 * area[1] = 168 * r) => p.feasibility_score = 95
                   /\ (r > 0 /\ 100 * area[1] = 140 * r) => p.feasibility_score = 85
                   /\ (r > 0 /\ 100 * area[1] = 126 * r) => p.feasibility_score = 70
                   /\ (r > 0 /\ 100 * area[1] = 112 * r) => p.feasibility_score = 55

\* required area 25 on 42 square metres: the ratio is exactly 1.2
C2_Witness ==
    /\ floorPlan.floor_area_sqm = Num(42)
    /\ activeTab = "solutions"
    /\ WeightedTotal(solRequirements[1]) = 25
    /\ \E i \in DOMAIN layout_solutions :
           layout_solutions[i].data.feasibility_score = 95

-----------------------------------------------------------------------------
(* C3 *)

\* C3: calculateFeasibilityScore(req, null) is 50 for every requirement
\* record, and every solution generated for a floor plan whose area is null
\* carries the score 50.
C3_NullAreaScores50 ==
    /\ calculateFeasibilityScore(InputReq, Null) = 50
    /\ floorPlan.floor_area_sqm = Null =>
           \A p \in Generated : p.feasibility_score = 50

C3_Witness ==
    /\ floorPlan.floor_area_sqm = Null
    /\ Len(layout_solutions) = 1
    /\ layout_solutions[1].data.feasibility_score = 50
    /\ solRequirements[1].workstations = MaxWorkstations

-----------------------------------------------------------------------------
(* C4 *)

\* C4: every record generateSolution builds has is_feasible = TRUE exactly
\* when its feasibility_score is at least 60.
C4_FeasibleIffScoreAtLeast60 ==
    \A p \in Generated : p.is_feasible <=> p.feasibility_score >= 60

\* a stored record just below the threshold: score 55, not feasible
C4_Witness ==
    \E i \in DOMAIN layout_solutions :
        /\ layout_solutions[i].data.feasibility_score = 55
        /\ ~layout_solutions[i].data.is_feasible

-----------------------------------------------------------------------------
(* C5 *)

\* C5: the feasibility_score of every record generateSolution builds is an
\* integer from 0 to 100, so the insert passes the CHECK constraint of
\* layout_solutions.feasibility_score, whatever the record and the area.
C5_ScoreWithinCheck ==
    \A p \in Generated :
        /\ p.feasibility_score \in 0..100
        /\ feasibilityScoreCheck(p)

\* a request in flight for a known area with the top score
C5_Witness ==
    /\ inflight # Null
    /\ ~Falsy(floorPlan.floor_area_sqm)
    /\ inflight[1].payload.feasibility_score = 95

-----------------------------------------------------------------------------
(* C6 *)

\* C6 as stated: isAreaSufficient is TRUE when the floor area is null or
\* estimatedArea <= floor area, and FALSE in every other case.  Stated for
\* the estimates of the records of the data model (no negative count).
C6_SufficientIffNullOrFits ==
    LET area == floorPlan.floor_area_sqm
    IN  (activeTab = "requirements" /\ NonNegativeCounts(requirements)) =>
            (isAreaSufficient(estimatedArea, area) <=>
                 (area = Null \/ estimatedArea <= area[1]))

\* C6 amended: isAreaSufficient is TRUE when the floor area is null or 0, or
\* estimatedArea <= floor area, and FALSE in every other case.
C6_SufficientIffUnsetOrFits ==
    LET area == floorPlan.floor_area_sqm
    IN  activeTab = "requirements" =>
            (isAreaSufficient(estimatedArea, area) <=>
                 (area = Null \/ area[1] = 0 \/ estimatedArea <= area[1]))

\* a positive estimate against a stored floor area of 0 counts as sufficient
C6_Witness ==
    /\ activeTab = "requirements"
    /\ floorPlan.floor_area_sqm = Num(0)
    /\ estimatedArea > 0
    /\ isAreaSufficient(estimatedArea, floorPlan.floor_area_sqm)

-----------------------------------------------------------------------------
(* C7 *)

\* C7 as stated: the flag shown with a record's estimate is TRUE exactly when
\* the floor area is null or the unrounded total * 1.4 is <= the floor area.
\* Stated for the records of the data model (no negative count) and the
\* floor areas other than 0, which C6 covers.
C7_FlagIffUnroundedFits ==
    LET area == floorPlan.floor_area_sqm
    IN  (EstimateShown /\ NonNegativeCounts(requirements) /\ area # Num(0)) =>
            (isAreaSufficient(estimatedArea, area) <=>
                 (area = Null \/
                  14 * WeightedTotal(requirements) <= 10 * area[1]))

\* C7 amended: the flag shown with a record's estimate is TRUE exactly when
\* the floor area is null or 0, or round(total * 1.4) <= the floor area
\* (for a whole area A: total * 1.4 < A + 0.5).
C7_FlagIffRoundedFits ==
    LET area == floorPlan.floor_area_sqm
    IN  EstimateShown =>
            (isAreaSufficient(estimatedArea, area) <=>
                 (area = Null \/ area[1] = 0 \/
                  14 * WeightedTotal(requirements) < 10 * area[1] + 5))

\* one workstation needs 8.4, shown as 8, and 8 square metres count as enough
C7_Witness ==
    /\ EstimateShown
    /\ WeightedTotal(requirements) = 6
    /\ floorPlan.floor_area_sqm = Num(8)
    /\ isAreaSufficient(estimatedArea, floorPlan.floor_area_sqm)

-----------------------------------------------------------------------------
(* C8 *)

FlagFields == {"kitchen_pantry", "reception_area", "server_room"}

\* C8: raising one count of the record by one, or switching one flag from
\* FALSE to TRUE, never lowers the estimate the form shows for the record.
C8_EstimateMonotone ==
    EstimateShown =>
        /\ \A f \in CountFields :
               calculateEstimatedArea([requirements EXCEPT ![f] = @ + 1])
                   >= estimatedArea
        /\ \A f \in FlagFields :
               ~requirements[f] =>
                   calculateEstimatedArea([requirements EXCEPT ![f] = TRUE])
                       >= estimatedArea

\* an estimate is shown for a record with storage rooms and an unset flag
C8_Witness ==
    /\ EstimateShown
    /\ requirements.storage_rooms = MaxCount
    /\ ~requirements.server_room
    /\ estimatedArea > 0

-----------------------------------------------------------------------------
(* C9 *)

\* C9 as stated: in every generated record workstations_placed is
\* floor(workstations * 0.85) and is never more than workstations.
C9_WorkstationsPlaced ==
    \A p \in Generated :
        /\ IsFloorOf(p.workstations_placed,
                     85 * solRequirements[1].workstations, 100)
        /\ p.workstations_placed <= solRequirements[1].workstations

-----------------------------------------------------------------------------
(* C10 *)

\* the area generateSolution divides: 0 when the floor area is absent
AreaOrZero ==
    IF floorPlan.floor_area_sqm = Null THEN 0 ELSE floorPlan.floor_area_sqm[1]

\* C10: in every generated record the small rooms placed are
\* min(meeting_rooms_small, floor(A / 100)) and the medium rooms placed are
\* min(meeting_rooms_medium, floor(A / 150)), A being the floor area, or 0
\* when it is absent.
C10_RoomsPlaced ==
    \A p \in Generated :
        /\ \E f \in -1..MaxAreaSteps + 1 :
               /\ IsFloorOf(f, AreaOrZero, 100)
               /\ IsMinOf(p.meeting_rooms_placed.small,
                          solRequirements[1].meeting_rooms_small, f)
        /\ \E f \in -1..MaxAreaSteps + 1 :
               /\ IsFloorOf(f, AreaOrZero, 150)
               /\ IsMinOf(p.meeting_rooms_placed.medium,
                          solRequirements[1].meeting_rooms_medium, f)

\* 199 square metres hold one small room of the two asked for, and one medium
C10_Witness ==
    /\ floorPlan.floor_area_sqm = Num(199)
    /\ \E i \in DOMAIN layout_solutions :
           /\ solRequirements[1].meeting_rooms_small = 2
           /\ solRequirements[1].meeting_rooms_medium = 2
           /\ layout_solutions[i].data.meeting_rooms_placed.small = 1
           /\ layout_solutions[i].data.meeting_rooms_placed.medium = 1

-----------------------------------------------------------------------------
(* C11 *)

\* C11: in every generated record the large rooms placed are
\* min(meeting_rooms_large, 1), hence never more than 1, whatever the number
\* asked for and whatever the floor area.
C11_LargeRoomsCapped ==
    \A p \in Generated :
        /\ IsMinOf(p.meeting_rooms_placed.large,
                   solRequirements[1].meeting_rooms_large, 1)
        /\ p.meeting_rooms_placed.large <= 1

\* two large rooms asked for on 300 square metres, one placed
C11_Witness ==
    /\ floorPlan.floor_area_sqm = Num(300)
    /\ \E i \in DOMAIN layout_solutions :
           /\ solRequirements[1].meeting_rooms_large = 2
           /\ layout_solutions[i].data.meeting_rooms_placed.large = 1

-----------------------------------------------------------------------------
(* C12 *)

\* C12: in every generated record amenities_placed has exactly the keys
\* phone_booths, breakout_areas, kitchen, reception, storage and server_room,
\* holding the requirement's phone_booths, breakout_areas, kitchen_pantry,
\* reception_area, storage_rooms and server_room unchanged, and
\* constraints_met.amenities is TRUE.
C12_AmenitiesPassThrough ==
    \A p \in Generated :
        LET req == solRequirements[1]
            a == p.amenities_placed
        IN  /\ DOMAIN a = {"phone_booths", "breakout_areas", "kitchen",
                           "reception", "storage", "server_room"}
            /\ a.phone_booths = req.phone_booths
            /\ a.breakout_areas = req.breakout_areas
            /\ a.kitchen = req.kitchen_pantry
            /\ a.reception = req.reception_area
            /\ a.storage = req.storage_rooms
            /\ a.server_room = req.server_room
            /\ p.constraints_met.amenities = TRUE

\* the default record on 150 square metres: not feasible, and still both
\* phone booths and the storage room are stored as placed
C12_Witness ==
    /\ floorPlan.floor_area_sqm = Num(150)
    /\ \E i \in DOMAIN layout_solutions :
           /\ ~layout_solutions[i].data.is_feasible
           /\ layout_solutions[i].data.amenities_placed.phone_booths = 2
           /\ layout_solutions[i].data.amenities_placed.storage = 1
           /\ layout_solutions[i].data.constraints_met.amenities

-----------------------------------------------------------------------------
(* C13 *)

\* the divisor of utilization_rate: the floor area, or 1 when it is absent or 0
AreaOrOne ==
    IF floorPlan.floor_area_sqm = Null \/ floorPlan.floor_area_sqm[1] = 0
    THEN 1 ELSE floorPlan.floor_area_sqm[1]

\* the fraction u is min(95, placed * 6 / d * 100)
IsCappedUtilization(u, placed, d) ==
    LET atLeast95 == IF d > 0 THEN 600 * placed >= 95 * d
                     ELSE 600 * placed <= 95 * d
    IN  IF atLeast95 THEN u.num = 95 * u.den
        ELSE u.num * d = 600 * placed * u.den

\* the formula of C13 alone: utilization_rate is
\* min(95, workstations_placed * 6 / D * 100), D being the floor area, or 1
\* when the area is absent or 0
UtilizationFollowsFormula ==
    \A p \in Generated :
        IsCappedUtilization(p.utilization_rate, p.workstations_placed, AreaOrOne)

\* C13 as stated: in every generated record utilization_rate is
\* min(95, workstations_placed * 6 / D * 100), D being the floor area, or 1
\* when the area is absent or 0, and the stored value lies in [0, 95].
C13_UtilizationWithinBounds ==
    \A p \in Generated :
        /\ IsCappedUtilization(p.utilization_rate, p.workstations_placed,
                               AreaOrOne)
        /\ 0 <= p.utilization_rate.num
        /\ p.utilization_rate.num <= 95 * p.utilization_rate.den

-----------------------------------------------------------------------------
(* C14 *)

\* C14: in every generated record constraints_met.workstations is TRUE
\* exactly when workstations_placed >= workstations * 0.8, workstations_placed
\* being floor(workstations * 0.85).
C14_WorkstationsConstraint ==
    \A p \in Generated :
        LET w == solRequirements[1].workstations
        IN  /\ IsFloorOf(p.workstations_placed, 85 * w, 100)
            /\ (p.constraints_met.workstations <=>
                   10 * p.workstations_placed >= 8 * w)

\* 10 workstations asked for, 8 placed: exactly 0.8 of them, constraint met
C14_Witness ==
    \E i \in DOMAIN layout_solutions :
        /\ solRequirements[1].workstations = 10
        /\ layout_solutions[i].data.workstations_placed = 8
        /\ layout_solutions[i].data.constraints_met.workstations

\* 4 workstations asked for, 3 placed: less than 3.2, constraint not met
C14_WitnessNotMet ==
    \E i \in DOMAIN layout_solutions :
        /\ solRequirements[1].workstations = 4
        /\ layout_solutions[i].data.workstations_placed = 3
        /\ ~layout_solutions[i].data.constraints_met.workstations

-----------------------------------------------------------------------------
(* C15 *)

\* C15: in every generated record constraints_met.meeting_rooms is TRUE
\* exactly when small placed + medium placed >=
\* (meeting_rooms_small + meeting_rooms_medium) * 0.7; neither the large rooms
\* asked for nor the large rooms placed change it.
C15_MeetingRoomsConstraint ==
    \A p \in Generated :
        LET req == solRequirements[1]
            placed == p.meeting_rooms_placed
        IN  /\ (p.constraints_met.meeting_rooms <=>
                   10 * (placed.small + placed.medium) >=
                   7 * (req.meeting_rooms_small + req.meeting_rooms_medium))
            /\ \A l \in 0..MaxRooms :
                   solutionPayload([req EXCEPT !.meeting_rooms_large = l],
                                   floorPlan).constraints_met.meeting_rooms
                       = p.constraints_met.meeting_rooms

\* 2 small, 2 medium and 2 large rooms on 199 square metres: 1 small, 1 medium
\* and 1 large placed; 2 is less than 2.8 and the constraint is not met
C15_Witness ==
    /\ floorPlan.floor_area_sqm = Num(199)
    /\ \E i \in DOMAIN layout_solutions :
           /\ solRequirements[1].meeting_rooms_small = 2
           /\ solRequirements[1].meeting_rooms_medium = 2
           /\ solRequirements[1].meeting_rooms_large = 2
           /\ layout_solutions[i].data.meeting_rooms_placed.large = 1
           /\ ~layout_solutions[i].data.constraints_met.meeting_rooms

\* 2 small and 1 medium on 300 square metres, all placed: constraint met,
\* although only 1 of the 2 large rooms asked for is placed
C15_WitnessMet ==
    /\ floorPlan.floor_area_sqm = Num(300)
    /\ \E i \in DOMAIN layout_solutions :
           /\ solRequirements[1].meeting_rooms_small = 2
           /\ solRequirements[1].meeting_rooms_medium = 1
           /\ solRequirements[1].meeting_rooms_large = 2
           /\ layout_solutions[i].data.constraints_met.meeting_rooms

-----------------------------------------------------------------------------
(* C16 *)

\* C16: when the floor area is unknown (null), generateSuggestions returns
\* exactly one line, the recommendation to set the floor area, for every
\* requirement record and either value of isFeasible; every record generated
\* for such a floor plan stores that single line.
C16_UnknownAreaSingleLine ==
    /\ \A isFeasible \in BOOLEAN :
           generateSuggestions(InputReq, Null, isFeasible) = <<"set_floor_area">>
    /\ floorPlan.floor_area_sqm = Null =>
           \A p \in Generated : p.suggestions = <<"set_floor_area">>

\* more than 30 workstations and 6 meeting rooms, no floor area: one line
C16_Witness ==
    /\ floorPlan.floor_area_sqm = Null
    /\ \E i \in DOMAIN layout_solutions :
           /\ solRequirements[1].workstations > 30
           /\ solRequirements[1].meeting_rooms_small +
                  solRequirements[1].meeting_rooms_medium +
                  solRequirements[1].meeting_rooms_large > 5
           /\ Len(layout_solutions[i].data.suggestions) = 1

-----------------------------------------------------------------------------
(* C17 *)

InfeasibleSet ==
    <<"infeasible_lead", "reduce_workstations", "flexible_shared_space",
      "reassess_facilities">>

FeasibleSet ==
    <<"feasible_lead", "open_plan", "glass_partitions", "reserve_for_expansion">>

\* the lines of record p are, in this order: the lead line and three bullets
\* of the set that p.is_feasible selects, the collaboration-zone line exactly
\* when workstations > 30, the booking-system line exactly when
\* small + medium + large > 5; 4, 5 or 6 lines
HasKnownAreaLines(p, req) ==
    LET lines == p.suggestions
        collab == req.workstations > 30
        booking == req.meeting_rooms_small + req.meeting_rooms_medium +
                   req.meeting_rooms_large > 5
        n == 4 + (IF collab THEN 1 ELSE 0) + (IF booking THEN 1 ELSE 0)
    IN  /\ Len(lines) = n
        /\ Len(lines) \in 4..6
        /\ SubSeq(lines, 1, 4) =
               (IF p.is_feasible THEN FeasibleSet ELSE InfeasibleSet)
        /\ collab => lines[5] = "collaboration_zone"
        /\ booking => lines[n] = "booking_system"
        /\ ~collab => \A i \in 1..n : lines[i] # "collaboration_zone"
        /\ ~booking => \A i \in 1..n : lines[i] # "booking_system"

\* C17 as stated: when the floor area is known (not null), the suggestions
\* are the lead line and three bullets of the infeasible or the feasible set,
\* then the collaboration-zone line iff workstations > 30, then the
\* booking-system line iff small + medium + large > 5: 4, 5 or 6 lines.
\* Stated for the records of the data model (no negative count).
C17_KnownAreaLines ==
    (floorPlan.floor_area_sqm # Null /\ activeTab = "solutions") =>
        \A p \in Generated :
            NonNegativeCounts(solRequirements[1]) =>
                HasKnownAreaLines(p, solRequirements[1])

\* C17 amended: when the floor area is neither null nor 0, the suggestions
\* are the lead line and three bullets of the infeasible or the feasible set,
\* then the collaboration-zone line iff workstations > 30, then the
\* booking-system line iff small + medium + large > 5: 4, 5 or 6 lines.
C17_NonZeroAreaLines ==
    ~Falsy(floorPlan.floor_area_sqm) =>
        \A p \in Generated : HasKnownAreaLines(p, solRequirements[1])

\* 31 workstations and 6 meeting rooms on 300 square metres: six lines, the
\* infeasible set first
C17_Witness ==
    /\ floorPlan.floor_area_sqm = Num(300)
    /\ \E i \in DOMAIN layout_solutions :
           /\ ~layout_solutions[i].data.is_feasible
           /\ Len(layout_solutions[i].data.suggestions) = 6
           /\ layout_solutions[i].data.suggestions[1] = "infeasible_lead"
           /\ layout_solutions[i].data.suggestions[5] = "collaboration_zone"
           /\ layout_solutions[i].data.suggestions[6] = "booking_system"

\* 31 workstations and no meeting room on 300 square metres: five lines, the
\* feasible set first
C17_WitnessFeasible ==
    /\ floorPlan.floor_area_sqm = Num(300)
    /\ \E i \in DOMAIN layout_solutions :
           /\ layout_solutions[i].data.is_feasible
           /\ Len(layout_solutions[i].data.suggestions) = 5
           /\ layout_solutions[i].data.suggestions[1] = "feasible_lead"
           /\ layout_solutions[i].data.suggestions[5] = "collaboration_zone"

-----------------------------------------------------------------------------
(* C18 *)

\* the record of scenarios A, B and C: 10 workstations, 1 small and 1 medium
\* meeting room, no large one, 2 phone booths, 1 breakout area, kitchen and
\* reception, 1 storage room, no server room
ScenarioRecord == Requirement(10, 1, 1, 0, 2, 1, TRUE, TRUE, 1, FALSE)

\* the loaded row holds the scenario record
ScenarioLoaded ==
    /\ activeTab = "solutions"
    /\ [f \in DOMAIN ScenarioRecord |-> solRequirements[1][f]] = ScenarioRecord

\* C18 (scenario A): the form starts from the scenario record; for that record
\* and an unknown floor area the estimate shown is 237, the area counts as
\* sufficient and the feasibility score is 50.
C18_ScenarioA ==
    /\ DefaultRequirements = ScenarioRecord
    /\ calculateFeasibilityScore(ScenarioRecord, Null) = 50
    /\ (EstimateShown /\ requirements = ScenarioRecord
            /\ floorPlan.floor_area_sqm = Null) =>
           /\ estimatedArea = 237
           /\ isAreaSufficient(estimatedArea, floorPlan.floor_area_sqm)
    /\ (ScenarioLoaded /\ floorPlan.floor_area_sqm = Null) =>
           \A p \in Generated : p.feasibility_score = 50

\* the form shows the scenario record's estimate for a plan without an area
C18_Witness ==
    /\ EstimateShown
    /\ requirements = ScenarioRecord
    /\ floorPlan.floor_area_sqm = Null
    /\ estimatedArea = 237
    /\ isAreaSufficient(estimatedArea, floorPlan.floor_area_sqm)

\* a solution is stored for the scenario record and a plan without an area
C18_WitnessScore ==
    /\ ScenarioLoaded
    /\ floorPlan.floor_area_sqm = Null
    /\ Len(layout_solutions) = 1
    /\ layout_solutions[1].data.feasibility_score = 50

-----------------------------------------------------------------------------
(* C19 *)

\* C19 (scenarios B and C): the scenario record requires 169; generated on
\* 300 square metres the score is 95 and is_feasible is TRUE; generated on
\* 150 the score is 40, is_feasible is FALSE and the first line of the
\* suggestions is the lead line of the infeasible set.
C19_ScenariosBC ==
    /\ requiredArea(ScenarioRecord) = 169
    /\ (ScenarioLoaded /\ floorPlan.floor_area_sqm = Num(300)) =>
           \A p \in Generated :
               p.feasibility_score = 95 /\ p.is_feasible = TRUE
    /\ (ScenarioLoaded /\ floorPlan.floor_area_sqm = Num(150)) =>
           \A p \in Generated :
               /\ p.feasibility_score = 40
               /\ p.is_feasible = FALSE
               /\ p.suggestions[1] = "infeasible_lead"

\* scenario C stored
C19_Witness ==
    /\ ScenarioLoaded
    /\ floorPlan.floor_area_sqm = Num(150)
    /\ Len(layout_solutions) = 1
    /\ layout_solutions[1].data.feasibility_score = 40
    /\ layout_solutions[1].data.suggestions[1] = "infeasible_lead"

\* scenario B stored
C19_WitnessB ==
    /\ ScenarioLoaded
    /\ floorPlan.floor_area_sqm = Num(300)
    /\ Len(layout_solutions) = 1
    /\ layout_solutions[1].data.feasibility_score = 95
    /\ layout_solutions[1].data.is_feasible

-----------------------------------------------------------------------------
(* C20 *)

\* every row of the table is still a row of the table in the next state,
\* with the same values
RowsKept(table, tableNext) ==
    \A i \in DOMAIN table :
        \E j \in DOMAIN tableNext : tableNext[j] = table[i]

\* C20: stored history is append-only.  Whatever step is taken (a tab opened,
\* the form loaded or edited, requirements saved, solutions loaded or
\* generated), every space_requirements row and every layout_solutions row
\* stored before the step is stored after it with unchanged values; a table
\* changes only by gaining one row, and a save that is answered adds a row.
C20_HistoryAppendOnly ==
    [][/\ RowsKept(space_requirements, space_requirements')
       /\ RowsKept(layout_solutions, layout_solutions')
       /\ space_requirements' # space_requirements =>
              /\ Len(space_requirements') = Len(space_requirements) + 1
              /\ SubSeq(space_requirements', 1, Len(space_requirements))
                     = space_requirements
       /\ layout_solutions' # layout_solutions =>
              /\ Len(layout_solutions') = Len(layout_solutions) + 1
              /\ SubSeq(layout_solutions', 1, Len(layout_solutions))
                     = layout_solutions
       /\ lastAlert' = "requirements_saved" /\ lastAlert # "requirements_saved" =>
              Len(space_requirements') = Len(space_requirements) + 1
      ]_vars

\* every stored solution references a stored requirement row
C20_SolutionsReferenceStoredRows ==
    \A i \in DOMAIN layout_solutions :
        \E j \in DOMAIN space_requirements :
            space_requirements[j].id =
                layout_solutions[i].data.space_requirement_id

\* the default record was saved and a solution generated for it; the form was
\* then edited to 40 workstations and saved again: two requirement rows, the
\* first as it was saved, and the solution still referencing the first
C20_Witness ==
    /\ Len(space_requirements) = 2
    /\ space_requirements[1].workstations = 10
    /\ space_requirements[2].workstations = 40
    /\ \E i \in DOMAIN layout_solutions :
           /\ layout_solutions[i].data.space_requirement_id =
                  space_requirements[1].id
           /\ layout_solutions[i].data.workstations_placed = 8

-----------------------------------------------------------------------------
(* C21 *)

\* the solutions view is on screen with its list rendered
ListShown == activeTab = "solutions" /\ ~loading /\ solRequirements # Null

\* C21: whatever loads and generations the solutions view has gone through,
\* the list it holds is ordered by created_at, newest first: of two entries
\* the earlier one in the list was created later.
C21_NewestFirst ==
    \A i, j \in DOMAIN solutions :
        i < j => solutions[i].created_at > solutions[j].created_at

\* a step that puts a generated solution into the list puts it at the head,
\* and it is the newest stored row
C21_GeneratedAtHead ==
    [][(Len(layout_solutions') = Len(layout_solutions) + 1 /\
        solutions' # solutions) =>
           /\ solutions'[1] = layout_solutions'[Len(layout_solutions')]
           /\ \A i \in DOMAIN layout_solutions :
                  layout_solutions[i].created_at < solutions'[1].created_at
      ]_vars

\* two solutions were generated, the tab was left and opened again: the load
\* shows both, the second one first
C21_Witness ==
    /\ ListShown
    /\ loads = <<>>
    /\ ~generating
    /\ Len(solutions) = 2
    /\ solutions[1].created_at = 2
    /\ solutions[2].created_at = 1

-----------------------------------------------------------------------------
(* C22 *)

\* C22: no negative count and no negative area enters the estimator: the
\* record calculateEstimatedArea has run on, and the record and the floor area
\* generateSolution has built a solution from, have every count at least 0
\* and the area absent or at least 0, whatever was typed into the form and
\* into the area field of the upload.
C22_NoNegativeReachesEstimator ==
    /\ EstimateShown => NonNegativeCounts(requirements)
    /\ (activeTab = "solutions" /\ Generated # {}) =>
           /\ NonNegativeCounts(solRequirements[1])
           /\ \/ floorPlan.floor_area_sqm = Null
              \/ floorPlan.floor_area_sqm[1] >= 0

-----------------------------------------------------------------------------
(* C23 *)

\* the estimate on screen is the estimate of the record the form holds
EstimateCurrent == estimatedArea = calculateEstimatedArea(requirements)

\* C23: the estimate is recomputed whenever the requirements change.  While
\* the requirements form is open, whatever has changed its record (a field
\* edited, the stored record arriving from the load), the estimate on screen
\* eventually is the estimate of the record the form holds then, unless the
\* form is closed first.
C23_EstimateEventuallyCurrent ==
    [](activeTab = "requirements" =>
           <>(activeTab # "requirements" \/ EstimateCurrent))

\* once the recompute has run, the estimate is not the one of an older record
C23_NeverStaleAfterRecompute == EstimateShown => EstimateCurrent

\* every step that changes the record of the open form makes the recompute due
C23_ChangeSchedulesRecompute ==
    [][(activeTab' = "requirements" /\ requirements' # requirements) =>
           effectPending']_vars

\* the record saved with 40 workstations has arrived from the load in the
\* reopened form and the estimate has followed: 1.4 * 349 = 488.6, shown as 489
C23_Witness ==
    /\ EstimateShown
    /\ formLoads = <<>>
    /\ \E i \in DOMAIN space_requirements :
           space_requirements[i].workstations = 40
    /\ ~saving
    /\ requirements.workstations = 40
    /\ estimatedArea = 489

-----------------------------------------------------------------------------
(* C24 *)

\* the i-th awaited insert of generateSolution is answered in this step
Answered(i) == inflight' = Without(inflight, i)

\* C24: when the insert of generateSolution fails, the step that resumes the
\* call leaves the list on screen as it is, shows the failure alert, and
\* clears generating; when the insert succeeds generating is cleared too.
\* The setters of a call whose view has been closed act on no view.
C24_FailureLeavesListAndResets ==
    [][\A i \in DOMAIN inflight :
           /\ (Answered(i) /\ layout_solutions' = layout_solutions) =>
                  /\ solutions' = solutions
                  /\ lastAlert' = "generate_failed"
                  /\ inflight[i].live => ~generating'
           /\ (Answered(i) /\ layout_solutions' # layout_solutions) =>
                  (inflight[i].live => ~generating')
      ]_vars

\* generating is set exactly while a call of the open view awaits its insert
C24_GeneratingWhileAwaited ==
    generating <=> \E i \in DOMAIN inflight : inflight[i].live

\* a second generation has failed: the alert is up, the list still holds the
\* one solution generated before, nothing is awaited, generating is cleared
C24_Witness ==
    /\ ListShown
    /\ lastAlert = "generate_failed"
    /\ inflight = <<>>
    /\ ~generating
    /\ Len(layout_solutions) = 1
    /\ solutions = <<layout_solutions[1]>>

-----------------------------------------------------------------------------
(* C25 *)

\* nothing is awaited any more: no query of loadFloorPlans, no load or
\* generation of the solutions view, no save
Quiescent ==
    /\ plansLoad.pc = "done"
    /\ loads = <<>>
    /\ inflight = <<>>
    /\ saveInflight = <<>>

\* C25: in the solutions view, once every load and every generation has been
\* answered, the requirement record and every solution on screen belong to
\* the floor plan that is selected, also when the selected plan changed while
\* a load or a generation for the plan selected before was awaited.
C25_DisplayedBelongToSelectedPlan ==
    (ListShown /\ Quiescent) =>
        /\ solRequirements[1].floor_plan_id = floorPlan.id
        /\ \A i \in DOMAIN solutions :
               solutions[i].data.floor_plan_id = floorPlan.id

-----------------------------------------------------------------------------
(* C26 *)

\* p is not feasible, scores 50 and places no small and no medium room
UnknownAreaRecord(p) ==
    /\ p.feasibility_score = 50
    /\ ~p.is_feasible
    /\ p.meeting_rooms_placed.small = 0
    /\ p.meeting_rooms_placed.medium = 0

\* C26: a solution generated while the floor plan has no area is never marked
\* feasible: whatever the requirement record, its feasibility_score is 50, its
\* is_feasible is FALSE, and its small and its medium rooms placed are 0.
C26_UnknownAreaNeverFeasible ==
    floorPlan.floor_area_sqm = Null =>
        \A p \in Generated : UnknownAreaRecord(p)

\* the same for the records that have no negative count
C26_UnknownAreaNonNegativeCounts ==
    (floorPlan.floor_area_sqm = Null /\ NonNegativeCounts(InputReq)) =>
        \A p \in Generated : UnknownAreaRecord(p)

-----------------------------------------------------------------------------
(* C27 *)

\* the selected floor plan with its area taken away
AreaUnknown == [floorPlan EXCEPT !.floor_area_sqm = Null]

\* C27: a floor area of exactly 0 is treated as an absent one by every
\* operation.  For every requirement record and area 0,
\* calculateFeasibilityScore is 50, generateSuggestions is the one line asking
\* to set the floor area, isAreaSufficient is TRUE, utilization_rate is
\* min(95, placed * 6 / 1 * 100), and the whole generated record is the one
\* generated for an absent area.
C27_ZeroAreaAsUnknown ==
    floorPlan.floor_area_sqm = Num(0) =>
        /\ calculateFeasibilityScore(InputReq, floorPlan.floor_area_sqm) = 50
        /\ \A feasible \in BOOLEAN :
               generateSuggestions(InputReq, floorPlan.floor_area_sqm, feasible)
                   = <<"set_floor_area">>
        /\ activeTab = "requirements" =>
               isAreaSufficient(estimatedArea, floorPlan.floor_area_sqm)
        /\ \A p \in Generated :
               /\ p.feasibility_score = 50
               /\ p.suggestions = <<"set_floor_area">>
               /\ IsCappedUtilization(p.utilization_rate,
                                      p.workstations_placed, 1)
               /\ p = solutionPayload(solRequirements[1], AreaUnknown)

\* 31 workstations on a plan stored with area 0: score 50, the single line,
\* 26 places * 6 / 1 * 100 capped at 95
C27_Witness ==
    /\ floorPlan.floor_area_sqm = Num(0)
    /\ Len(layout_solutions) = 1
    /\ solRequirements[1].workstations = MaxWorkstations
    /\ layout_solutions[1].data.feasibility_score = 50
    /\ layout_solutions[1].data.suggestions = <<"set_floor_area">>
    /\ layout_solutions[1].data.utilization_rate = [num |-> 95, den |-> 1]

\* the form on a plan stored with area 0: a positive estimate counts as fitting
C27_WitnessForm ==
    /\ floorPlan.floor_area_sqm = Num(0)
    /\ EstimateShown
    /\ estimatedArea > 0
    /\ isAreaSufficient(estimatedArea, floorPlan.floor_area_sqm)

-----------------------------------------------------------------------------
(* C28 *)

\* C28: for a record whose required area is 0 (every count 0, every flag
\* FALSE) and a floor area above 0, calculateFeasibilityScore is 95 and so is
\* the score of every solution generated; and whatever the record, the score
\* for an area that is neither null nor 0 is one of 40, 55, 70, 85, 95.
C28_ZeroRequiredAreaScores95 ==
    LET area == floorPlan.floor_area_sqm
    IN  /\ (requiredArea(InputReq) = 0 /\ area # Null /\ area[1] > 0) =>
               /\ calculateFeasibilityScore(InputReq, area) = 95
               /\ \A p \in Generated : p.feasibility_score = 95
        /\ ~Falsy(area) =>
               /\ calculateFeasibilityScore(InputReq, area)
                      \in {40, 55, 70, 85, 95}
               /\ \A p \in Generated :
                      p.feasibility_score \in {40, 55, 70, 85, 95}

\* the record of zeros on a plan of 1 square metre: stored with score 95
C28_Witness ==
    /\ floorPlan.floor_area_sqm = Num(1)
    /\ activeTab = "solutions"
    /\ formFields(solRequirements[1]) = ZeroRequirements
    /\ Len(layout_solutions) = 1
    /\ layout_solutions[1].data.feasibility_score = 95
    /\ layout_solutions[1].data.is_feasible

-----------------------------------------------------------------------------
(* C29 *)

\* the inserts awaited by calls of the solutions view that is open
AwaitedByView == {i \in DOMAIN inflight : inflight[i].live}

\* C29: in one solutions view at most one insert is awaited at any time, and
\* generating is set (the button disabled) as long as it is awaited; a
\* generation starts only in a view whose requirements are not null, whose
\* button is enabled, and the start disables the button.
C29_OneInsertInFlight ==
    /\ [](/\ Cardinality(AwaitedByView) <= 1
          /\ AwaitedByView # {} => generating /\ activeTab = "solutions")
    /\ [][Len(inflight') > Len(inflight) =>
              /\ solRequirements # Null
              /\ ~generating
              /\ AwaitedByView = {}
              /\ generating'
         ]_vars

\* one solution has been generated and stored; the button was clicked again
\* and the second insert is awaited, the button disabled
C29_Witness ==
    /\ ListShown
    /\ Len(layout_solutions) = 1
    /\ solutions = <<layout_solutions[1]>>
    /\ Len(inflight) = 1
    /\ inflight[1].live
    /\ generating

-----------------------------------------------------------------------------
(* C30 *)

\* the stored requirement records of floor plan fp
RequirementsOf(fp) ==
    {space_requirements[j] : j \in {k \in DOMAIN space_requirements :
                                       space_requirements[k].floor_plan_id = fp}}

\* r is the most recently saved record of floor plan fp
IsNewestOf(r, fp) ==
    /\ r \in RequirementsOf(fp)
    /\ \A q \in RequirementsOf(fp) : q.created_at <= r.created_at

\* the stored solutions generated for requirement record r
StoredSolutionsOf(r) ==
    {layout_solutions[j] : j \in {k \in DOMAIN layout_solutions :
                                     layout_solutions[k].data.space_requirement_id
                                         = r.id}}

\* list holds exactly the rows, each once
ShowsExactly(list, rows) ==
    /\ {list[i] : i \in DOMAIN list} = rows
    /\ Len(list) = Cardinality(rows)

\* the open solutions view stays open in this step
ViewStays == activeTab = "solutions" /\ activeTab' = "solutions"

\* C30: the solutions view shows only the solutions of the most recently
\* saved requirement record of the floor plan.  When the view loads, the
\* answer to its first query makes the newest stored record of the floor
\* plan the record of the view (none if the plan has none), and the answer to
\* its second query makes the list exactly the stored solutions whose
\* space_requirement_id is that record's id: the solutions of earlier
\* records stay stored and are not in the list, and the list is empty when
\* no solution is stored for the record.  A query that fails leaves the view
\* as it is.
C30_LoadShowsNewestRecordOnly ==
    [][\A i \in DOMAIN loads :
           /\ (ViewStays /\ loads[i].pc = "requirements"
                 /\ loads' = Without(loads, i)) =>
                  \/ solRequirements' = Null /\ RequirementsOf(loads[i].fp) = {}
                  \/ UNCHANGED solRequirements
           /\ (ViewStays /\ loads[i].pc = "requirements"
                 /\ Len(loads') = Len(loads) /\ loads'[i].pc = "solutions") =>
                  /\ solRequirements' # Null
                  /\ IsNewestOf(solRequirements'[1], loads[i].fp)
                  /\ loads'[i].reqData = solRequirements'
           /\ (ViewStays /\ loads[i].pc = "solutions"
                 /\ loads' = Without(loads, i)) =>
                  \/ ShowsExactly(solutions', StoredSolutionsOf(loads[i].reqData[1]))
                  \/ UNCHANGED solutions
      ]_vars

\* the default record was saved and a solution generated for it, the form
\* was edited and saved again and the solutions view has loaded: the list is
\* empty, the second record is the view's, the solution of the first record
\* is still stored
C30_Witness ==
    /\ ListShown
    /\ Quiescent
    /\ Len(space_requirements) = 2
    /\ space_requirements[1].floor_plan_id = floorPlan.id
    /\ space_requirements[2].floor_plan_id = floorPlan.id
    /\ solRequirements = <<space_requirements[2]>>
    /\ Len(layout_solutions) = 1
    /\ layout_solutions[1].data.space_requirement_id = space_requirements[1].id
    /\ solutions = <<>>

====
